---- MODULE Spec2Model ----
(***************************************************************************)
(* Coffee roaster simulator (src/src/App.jsx): the React component App,    *)
(* its run loop (start, interval tick, stop), the construction of the      *)
(* result payload in finishAndSend and its delivery by sendWithRetry.      *)
(*                                                                         *)
(* Each delivery invocation is a record holding sendWithRetry's locals     *)
(* (attempt, lastErr), its position (pc) and the history of what it did    *)
(* to the outside world (trace: axios.post calls, their completions,       *)
(* setTimeout calls and timer firings), plus what finishAndSend reported   *)
(* to the user through setMessage (reports).                               *)
(***************************************************************************)
EXTENDS Integers, Sequences, FiniteSets, TLC

VARIABLES sessionParams, message, running, progress, targetTime, temperature,
          events, intervalTargetTime, intervalTemperature, deliveries,
          startedAtRef, now

vars == <<sessionParams, message, running, progress, targetTime, temperature,
          events, intervalTargetTime, intervalTemperature, deliveries,
          startedAtRef, now>>

appVars == <<sessionParams, message, running, progress, targetTime, temperature,
             events, intervalTargetTime, intervalTemperature, startedAtRef, now>>

-----------------------------------------------------------------------------
(* Bounds of the model *)

\* largest maxAttempts handed to sendWithRetry when it is exercised on its own
MaxAttemptsBound == 4
\* a run is started only with a target time of at most this many seconds
MaxProgress == 2
\* seconds of wall-clock time that pass after the page is loaded
MaxClock == 2
\* number of delivery invocations (runs that end with progress > 0)
MaxDeliveries == 1

(* Program constants *)

DefaultTargetTime == 300
DefaultTemperature == 200
AxiosTimeout == 10000
BackoffUnit == 500
FinishMaxAttempts == 3

-----------------------------------------------------------------------------
(* Values *)

\* JavaScript null / undefined (URLSearchParams.get gives null for a missing key)
Null == "<null>"

Truthy(s) == s # Null /\ s # ""

\* the wall clock reads minute 0, second 58 when the page is loaded; now
\* counts the seconds since
PageLoadSecond == 58

\* new Date(): an instant, in seconds
DateNow == PageLoadSecond + now

\* the value of a ref that holds null
NoDate == -1

\* Date.prototype.toISOString, cut to its minutes and seconds fields
toISOString(t) == << t \div 60, t % 60 >>

\* the order of two timestamps written by toISOString
IsoLeq(a, b) == a[1] < b[1] \/ (a[1] = b[1] /\ a[2] <= b[2])

\* String.prototype.startsWith
StartsWith(s, prefix) ==
  /\ Len(s) >= Len(prefix)
  /\ SubSeq(s, 1, Len(prefix)) = prefix

\* query-string values the page can be loaded with
SessionIds == {Null, "s1"}
ApiKeys == {Null, "key123", "k2"}
CallbackUrls == {Null, "http://insecure.example", "https://cb.example/x",
                 "HTTPS://cb.example/x"}

\* errors an axios.post can reject with: [name, message]
Errors == { [name |-> "AxiosError", message |-> "timeout of 10000ms exceeded"],
            [name |-> "AxiosError", message |-> "Network Error"],
            [name |-> "Error", message |-> ""] }

\* response bodies (res.data) of a 2xx answer
NoBody == [present |-> FALSE, hasMessage |-> FALSE, message |-> Null]
Bodies == { NoBody,
            [present |-> TRUE, hasMessage |-> FALSE, message |-> Null],
            [present |-> TRUE, hasMessage |-> TRUE, message |-> ""],
            [present |-> TRUE, hasMessage |-> TRUE, message |-> Null],
            [present |-> TRUE, hasMessage |-> TRUE, message |-> "stored"] }

\* res?.message
BodyMessage(res) == IF res.present /\ res.hasMessage THEN res.message ELSE Null

\* the initial value of lastErr (null): null?.message is undefined and
\* String(null) is "null"
NoErr == [name |-> "null", message |-> Null]

\* err?.message || String(err); String of an Error without message is its name
ErrText(err) == IF Truthy(err.message) THEN err.message ELSE err.name

-----------------------------------------------------------------------------
(* sendWithRetry *)

\* the request without the credential header
RequestWithoutKey(url, payload, apiKey) ==
  [ url |-> url, data |-> payload,
    headers |-> [contentType |-> "application/json", xApiKey |-> Null],
    timeout |-> AxiosTimeout ]

\* the axios.post call of one attempt
Request(url, payload, apiKey) ==
  [ url |-> url, data |-> payload,
    headers |-> [contentType |-> "application/json", xApiKey |-> apiKey],
    timeout |-> AxiosTimeout ]

\* the delay computed from the attempt counter before its increment
DelayPreIncrement(attempt) == (2 ^ (attempt - 1)) * BackoffUnit

\* Math.pow(2, attempt) * 500
Delay(attempt) == (2 ^ attempt) * BackoffUnit

\* the loop test off by one: attempt <= maxAttempts
LoopTestOffByOne(d) ==
  IF d.attempt <= d.maxAttempts
  THEN [d EXCEPT !.pc = "posting",
                 !.trace = Append(@, [ev |-> "post",
                                      req |-> Request(d.url, d.payload, d.apiKey)])]
  ELSE [d EXCEPT !.pc = "threw"]

\* while (attempt < maxAttempts) { axios.post ... }  throw lastErr
LoopTest(d) ==
  IF d.attempt < d.maxAttempts
  THEN [d EXCEPT !.pc = "posting",
                 !.trace = Append(@, [ev |-> "post",
                                      req |-> Request(d.url, d.payload, d.apiKey)])]
  ELSE [d EXCEPT !.pc = "threw"]

sendWithRetry(url, payload, apiKey, maxAttempts) ==
  LoopTest([ url |-> url, payload |-> payload, apiKey |-> apiKey,
             maxAttempts |-> maxAttempts, attempt |-> 0, lastErr |-> NoErr,
             pc |-> "start", data |-> NoBody, trace |-> <<>>, reports |-> <<>> ])

\* the try block without its return: the loop goes on after a success
PostResolvedNoReturn(d, body) ==
  LoopTest([d EXCEPT !.data = body,
                     !.trace = Append(@, [ev |-> "resolved", body |-> body])])

\* the awaited axios.post fulfils: return res.data
PostResolved(d, body) ==
  [d EXCEPT !.pc = "returned", !.data = body,
            !.trace = Append(@, [ev |-> "resolved", body |-> body])]

\* the catch block without the await: the timer is set and the loop goes on
PostRejectedNoAwait(d, err) ==
  LoopTest([d EXCEPT !.lastErr = err,
                     !.attempt = @ + 1,
                     !.trace = @ \o << [ev |-> "rejected", err |-> err],
                                       [ev |-> "setTimeout",
                                        delay |-> Delay(d.attempt + 1)] >>])

\* the catch block keeping the first error: lastErr = lastErr || err
PostRejectedKeepsFirst(d, err) ==
  [d EXCEPT !.lastErr = IF @ = NoErr THEN err ELSE @,
            !.attempt = @ + 1,
            !.pc = "waiting",
            !.trace = @ \o << [ev |-> "rejected", err |-> err],
                              [ev |-> "setTimeout", delay |-> Delay(d.attempt + 1)] >>]

\* the awaited axios.post rejects: the catch block up to the await of the timer
PostRejected(d, err) ==
  [d EXCEPT !.lastErr = err,
            !.attempt = @ + 1,
            !.pc = "waiting",
            !.trace = @ \o << [ev |-> "rejected", err |-> err],
                              [ev |-> "setTimeout", delay |-> Delay(d.attempt + 1)] >>]

\* the timer of the catch block fires: back to the loop test
TimerFired(d) ==
  LoopTest([d EXCEPT !.trace = Append(@, [ev |-> "timerFired"])])

-----------------------------------------------------------------------------
(* App: state after the first render *)

\* parseParams: the query-string values, mode defaulting to 'learning'
parseParams ==
  { [ session_id |-> s, learner_id |-> Null, resource_id |-> Null,
      api_key |-> k, callback_url |-> u, mode |-> "learning" ] :
    s \in SessionIds, k \in ApiKeys, u \in CallbackUrls }

\* values the user types into the two number inputs
TargetInputs == 0..MaxProgress
TempInputs == {90, 260}
\* (Math.random() - 0.5) * 4 lies in [-2, 2)
Drifts == {-2, 1}

Max2(a, b) == IF a >= b THEN a ELSE b
Min2(a, b) == IF a <= b THEN a ELSE b

Abs(a) == IF a >= 0 THEN a ELSE -a

\* the clamp without its lower limit: Math.min(250, t)
ClampUpperOnly(t) == Min2(250, t)

\* Math.max(100, Math.min(250, t))
Clamp(t) == Max2(100, Min2(250, t))

\* { ts: nowISO(), code, label }
EventAt(t, code, label) == [ts |-> toISOString(t), code |-> code, label |-> label]
Event(code, label) == EventAt(DateNow, code, label)

\* the new record put in front of the log: [e, ...ev]
PrependEvent(ev, e) == <<e>> \o ev

\* [...ev, e]
AppendEvent(ev, e) == Append(ev, e)

Init ==
  /\ sessionParams \in parseParams
  /\ message = ""
  /\ running = FALSE
  /\ progress = 0
  /\ targetTime = DefaultTargetTime
  /\ temperature = DefaultTemperature
  /\ events = <<>>
  /\ intervalTargetTime = DefaultTargetTime
  /\ intervalTemperature = DefaultTemperature
  /\ deliveries = <<>>
  /\ startedAtRef = NoDate
  /\ now = 0

-----------------------------------------------------------------------------
(* finishAndSend *)

\* Math.max(0, 100 - Math.abs(200 - temperature))
TempStability(temp) == Max2(0, 100 - Abs(DefaultTemperature - temp))

\* timeScore = Math.max(0, 100 - Math.abs(targetTime - progress) / targetTime * 100)
\* as the numerator of a fraction over Abs(target), for target # 0: a negative
\* target makes the quotient negative and the time score larger than 100
TimeScoreNum(target, prog) ==
  IF target > 0
  THEN Max2(0, 100 * target - 100 * Abs(target - prog))
  ELSE 100 * Abs(target) + 100 * Abs(target - prog)

\* Math.round of the fraction num / den, num >= 0, den > 0: halves go up
RoundFrac(num, den) == (2 * num + den) \div (2 * den)

\* the score without Math.min(100, ...)
ScoreUncapped(target, prog, temp) ==
  LET stab == TempStability(temp)
      den == 10 * Abs(target)
      num == 7 * TimeScoreNum(target, prog) + 3 * stab * Abs(target)
  IN IF target = 0 THEN RoundFrac(3 * stab, 10)
     ELSE RoundFrac(num, den)

\* score = Math.round(Math.min(100, timeScore*0.7 + tempStability*0.3)), in
\* exact arithmetic. With target = 0 and prog > 0 the quotient is Infinity and
\* the time score Math.max(0, -Infinity) = 0.
Score(target, prog, temp) ==
  LET stab == TempStability(temp)
      den == 10 * Abs(target)
      num == 7 * TimeScoreNum(target, prog) + 3 * stab * Abs(target)
  IN IF target = 0 THEN RoundFrac(3 * stab, 10)
     ELSE IF num >= 100 * den THEN 100
     ELSE RoundFrac(num, den)

\* the grade with the first threshold exclusive: score > 85
GradeExclusive(score) == IF score > 85 THEN "A" ELSE IF score >= 70 THEN "B" ELSE "C"

\* score >= 85 ? 'A' : (score >= 70 ? 'B' : 'C')
Grade(score) == IF score >= 85 THEN "A" ELSE IF score >= 70 THEN "B" ELSE "C"

\* startedAtRef.current || new Date(endedAt.getTime() - progress*1000)
StartedAt(ref, endedAt, prog) == IF ref # NoDate THEN ref ELSE endedAt - prog

\* the payload object literal, built from this render's state
Payload(sp, prog, temp, evs) ==
  [ schema_version |-> "1.0.0",
    session_id |-> sp.session_id,
    resource_id |-> IF Truthy(sp.resource_id) THEN sp.resource_id ELSE "resource-unknown",
    learner_id |-> IF Truthy(sp.learner_id) THEN sp.learner_id ELSE "learner-unknown",
    mode |-> IF Truthy(sp.mode) THEN sp.mode ELSE "learning",
    started_at |-> toISOString(StartedAt(startedAtRef, DateNow, prog)),
    ended_at |-> toISOString(DateNow),
    summary |-> [ score |-> Score(targetTime, prog, temp),
                  status |-> "completed",
                  grade |-> Grade(Score(targetTime, prog, temp)) ],
    metrics |-> << [code |-> "TIME_TOTAL", value |-> prog, unit |-> "s"],
                   [code |-> "PEAK_TEMP", value |-> temp, unit |-> "C"] >>,
    events |-> evs,
    competencies |-> <<>> ]

\* the default applied to a missing message only: res?.message ?? 'OK'
SentMessageNullish(res) ==
  "Resultats envoyes: " \o (IF BodyMessage(res) # Null THEN BodyMessage(res) ELSE "OK")

\* setMessage('Résultats envoyés: ' + (res?.message || 'OK'))
SentMessage(res) ==
  "Resultats envoyes: " \o (IF Truthy(BodyMessage(res)) THEN BodyMessage(res) ELSE "OK")

\* setMessage('Échec envoi résultats: ' + (err?.message || String(err)))
FailedMessage(err) == "Echec envoi resultats: " \o ErrText(err)

HttpsError == [name |-> "Error", message |-> "callback_url doit etre en HTTPS"]

\* finishAndSend without its catch block: a thrown error is never reported
SettleNoCatch(d) ==
  IF d.pc = "returned"
  THEN [d EXCEPT !.pc = "done",
                 !.reports = Append(@, [kind |-> "ack", text |-> SentMessage(d.data)])]
  ELSE d

\* what finishAndSend does with a delivery once sendWithRetry has settled:
\* the statement after the await, or the catch block
Settle(d) ==
  IF d.pc = "returned"
  THEN [d EXCEPT !.pc = "done",
                 !.reports = Append(@, [kind |-> "ack", text |-> SentMessage(d.data)])]
  ELSE IF d.pc = "threw"
  THEN [d EXCEPT !.pc = "done",
                 !.reports = Append(@, [kind |-> "failure",
                                        text |-> FailedMessage(d.lastErr)])]
  ELSE d

\* the message on screen after a step of a delivery
MessageAfter(d, old) ==
  IF d.reports # <<>> THEN d.reports[Len(d.reports)].text ELSE old

\* finishAndSend testing the scheme with startsWith('http')
finishAndSendHttp(sp, prog, temp, evs) ==
  LET payload == Payload(sp, prog, temp, evs)
      refused == [ url |-> sp.callback_url, payload |-> payload,
                   apiKey |-> sp.api_key, maxAttempts |-> FinishMaxAttempts,
                   attempt |-> 0, lastErr |-> HttpsError, pc |-> "threw",
                   data |-> NoBody, trace |-> <<>>, reports |-> <<>> ]
  IN IF ~StartsWith(sp.callback_url, "http")
     THEN Settle(refused)
     ELSE Settle(sendWithRetry(sp.callback_url, payload, sp.api_key, FinishMaxAttempts))

\* finishAndSend up to its first suspension: builds the payload, refuses a
\* callback_url that is not https, otherwise enters sendWithRetry
finishAndSend(sp, prog, temp, evs) ==
  LET payload == Payload(sp, prog, temp, evs)
      refused == [ url |-> sp.callback_url, payload |-> payload,
                   apiKey |-> sp.api_key, maxAttempts |-> FinishMaxAttempts,
                   attempt |-> 0, lastErr |-> HttpsError, pc |-> "threw",
                   data |-> NoBody, trace |-> <<>>, reports |-> <<>> ]
  IN IF ~StartsWith(sp.callback_url, "https://")
     THEN Settle(refused)
     ELSE Settle(sendWithRetry(sp.callback_url, payload, sp.api_key, FinishMaxAttempts))

\* the effect on [running] without its test of progress
RunEndedEffectAnyProgress(run, prog, temp, evs, msg) ==
  IF ~run
  THEN LET d == finishAndSend(sessionParams, prog, temp, evs)
       IN /\ deliveries' = Append(deliveries, d)
          /\ message' = MessageAfter(d, "Envoi des resultats...")
  ELSE /\ deliveries' = deliveries
       /\ message' = msg

\* the effect on [running]: when the run has stopped with progress > 0
RunEndedEffect(run, prog, temp, evs, msg) ==
  IF ~run /\ prog > 0
  THEN LET d == finishAndSend(sessionParams, prog, temp, evs)
       IN /\ deliveries' = Append(deliveries, d)
          /\ message' = MessageAfter(d, "Envoi des resultats...")
  ELSE /\ deliveries' = deliveries
       /\ message' = msg

-----------------------------------------------------------------------------
(* The run loop *)

\* the test of start() without api_key
MissingParamsNoKey(sp) ==
  \/ ~Truthy(sp.session_id)
  \/ ~Truthy(sp.callback_url)

\* !session_id || !api_key || !callback_url
MissingParams(sp) ==
  \/ ~Truthy(sp.session_id)
  \/ ~Truthy(sp.api_key)
  \/ ~Truthy(sp.callback_url)

\* the ref assigned only while it is empty: startedAtRef.current ||= new Date()
RunStartedAtKeepsFirst(ref, date) == IF ref # NoDate THEN ref ELSE date

\* startedAtRef.current = new Date()
RunStartedAt(ref, date) == date

\* the button "Demarrer", shown while no run is in progress
start ==
  /\ ~running
  /\ IF MissingParams(sessionParams)
     THEN /\ message' = "Parametres manquants"
          /\ UNCHANGED <<sessionParams, running, progress, targetTime, temperature,
                         events, intervalTargetTime, intervalTemperature, deliveries,
                         startedAtRef, now>>
     ELSE /\ Len(deliveries) < MaxDeliveries
          /\ targetTime <= MaxProgress
          /\ message' = "Simulation demarree"
          /\ progress' = 0
          /\ running' = TRUE
          \* the effect on [running]: the start instant, ACTION.START and the
          \* interval, whose callback closes over this render's targetTime
          \* and temperature
          /\ startedAtRef' = RunStartedAt(startedAtRef, DateNow)
          /\ events' = AppendEvent(<<>>, Event("ACTION.START",
                                               "Demarrage de la torrefaction"))
          /\ intervalTargetTime' = targetTime
          /\ intervalTemperature' = temperature
          /\ UNCHANGED <<sessionParams, targetTime, temperature, deliveries, now>>

\* the test of the interval callback on the target time of the current render
IntervalStopsCurrent(np) == np >= targetTime

\* if (np >= targetTime), targetTime being the one the callback closed over
IntervalStops(np) == np >= intervalTargetTime

\* one firing of the interval callback, and the render that follows
tick ==
  /\ running
  /\ \E drift \in Drifts, press \in BOOLEAN :
       LET np == progress + 1
           nt == Clamp(temperature + drift)
           ne == IF press
                 THEN AppendEvent(events,
                                  [ts |-> toISOString(DateNow), code |-> "ACTION.PRESS",
                                   label |-> "Ajustement",
                                   meta |-> [temperature |-> intervalTemperature]])
                 ELSE events
           nr == ~IntervalStops(np)
       IN /\ progress' = np
          /\ temperature' = nt
          /\ events' = ne
          /\ running' = nr
          /\ RunEndedEffect(nr, np, nt, ne, message)
  /\ UNCHANGED <<sessionParams, targetTime, intervalTargetTime, intervalTemperature,
                 startedAtRef, now>>

\* the button "Arreter", shown while a run is in progress
stop ==
  /\ running
  /\ running' = FALSE
  /\ events' = AppendEvent(events, Event("ACTION.STOP", "Arret manuel"))
  /\ RunEndedEffect(FALSE, progress, temperature, events', message)
  /\ UNCHANGED <<sessionParams, progress, targetTime, temperature,
                 intervalTargetTime, intervalTemperature, startedAtRef, now>>

\* a second of wall-clock time passes
clockAdvances ==
  /\ now < MaxClock
  /\ now' = now + 1
  /\ UNCHANGED <<sessionParams, message, running, progress, targetTime, temperature,
                 events, intervalTargetTime, intervalTemperature, deliveries,
                 startedAtRef>>

\* onChange of the "Temps cible" input
setTargetTime ==
  /\ \E v \in TargetInputs : targetTime' = v
  /\ UNCHANGED <<sessionParams, message, running, progress, temperature, events,
                 intervalTargetTime, intervalTemperature, deliveries, startedAtRef, now>>

\* onChange of the "Temperature initiale" input
setTemperature ==
  /\ \E v \in TempInputs : temperature' = v
  /\ UNCHANGED <<sessionParams, message, running, progress, targetTime, events,
                 intervalTargetTime, intervalTemperature, deliveries, startedAtRef, now>>

-----------------------------------------------------------------------------
(* Steps of a delivery started by finishAndSend *)

Deliver(i, d) ==
  /\ deliveries' = [deliveries EXCEPT ![i] = Settle(d)]
  /\ message' = MessageAfter(Settle(d), message)
  /\ UNCHANGED <<sessionParams, running, progress, targetTime, temperature,
                 events, intervalTargetTime, intervalTemperature, startedAtRef, now>>

postResolves ==
  \E i \in DOMAIN deliveries, body \in Bodies :
    /\ deliveries[i].pc = "posting"
    /\ Deliver(i, PostResolved(deliveries[i], body))

postRejects ==
  \E i \in DOMAIN deliveries, err \in Errors :
    /\ deliveries[i].pc = "posting"
    /\ Deliver(i, PostRejected(deliveries[i], err))

timerFires ==
  \E i \in DOMAIN deliveries :
    /\ deliveries[i].pc = "waiting"
    /\ Deliver(i, TimerFired(deliveries[i]))

Next ==
  \/ start
  \/ tick
  \/ stop
  \/ setTargetTime
  \/ setTemperature
  \/ clockAdvances
  \/ postResolves
  \/ postRejects
  \/ timerFires

Spec == Init /\ [][Next]_vars

-----------------------------------------------------------------------------
(* The run loop on its own: the page, its buttons, inputs, interval and     *)
(* clock, with the callback service silent. The steps of a delivery change  *)
(* deliveries and message only, so what holds here of the other variables   *)
(* and of the number of deliveries holds with the service answering too.    *)

NextRun ==
  \/ start
  \/ tick
  \/ stop
  \/ setTargetTime
  \/ setTemperature
  \/ clockAdvances

\* page loads told apart by what start() and the payload read of the URL
RunParams ==
  { sp \in parseParams : /\ sp.api_key \in {Null, "key123"}
                         /\ sp.callback_url \in {Null, "https://cb.example/x"} }

InitRun == Init /\ sessionParams \in RunParams

SpecRun == InitRun /\ [][NextRun]_vars

\* the interval fires every second while a run is in progress
FairSpecRun == SpecRun /\ WF_vars(tick)

-----------------------------------------------------------------------------
(* finishAndSend on its own: the component in a state where a run has just  *)
(* ended (running false, progress > 0), the effect then calling             *)
(* finishAndSend. start() lets a run begin only with session_id, api_key    *)
(* and callback_url present, so these are present here.                     *)

\* the event log of a run ended by the interval, and of one ended by stop()
AutoEndedEvents == << EventAt(PageLoadSecond, "ACTION.START",
                              "Demarrage de la torrefaction") >>
StoppedEvents == << EventAt(PageLoadSecond, "ACTION.START",
                            "Demarrage de la torrefaction"),
                    Event("ACTION.STOP", "Arret manuel") >>

InitFinish ==
  /\ sessionParams \in { sp \in parseParams : /\ Truthy(sp.session_id)
                                               /\ Truthy(sp.api_key)
                                               /\ Truthy(sp.callback_url) }
  /\ running = FALSE
  /\ startedAtRef = PageLoadSecond
  /\ progress \in 1..MaxProgress
  /\ now = progress
  /\ intervalTargetTime \in TargetInputs \cup {DefaultTargetTime}
  \* the interval stops the run at the first tick with progress >= target
  /\ intervalTargetTime <= 0 => progress = 1
  /\ progress <= Max2(1, intervalTargetTime)
  /\ targetTime = intervalTargetTime
  /\ temperature \in {DefaultTemperature, 100}
  /\ events = IF progress >= intervalTargetTime THEN AutoEndedEvents ELSE StoppedEvents
  /\ intervalTemperature = DefaultTemperature
  /\ deliveries = <<>>
  /\ message = "Simulation demarree"

\* the effect on [running] of the render in which the run has ended
runEnded ==
  /\ deliveries = <<>>
  /\ RunEndedEffect(running, progress, temperature, events, message)
  /\ UNCHANGED <<sessionParams, running, progress, targetTime, temperature,
                 events, intervalTargetTime, intervalTemperature, startedAtRef, now>>

NextFinish ==
  \/ runEnded
  \/ postResolves
  \/ postRejects
  \/ timerFires

SpecFinish == InitFinish /\ [][NextFinish]_vars

\* finishAndSend on the state of a run stopped by hand after progress ticks,
\* the user having typed a target time and a temperature while it ran
PayloadTargets == {-2, -1, 0, 1, 2, 3, DefaultTargetTime}
PayloadTemps == {90, 100, 147, 150, 174, DefaultTemperature, 250, 320}

InitPayload ==
  /\ sessionParams \in { sp \in RunParams : ~MissingParams(sp) }
  /\ running = FALSE
  /\ startedAtRef = PageLoadSecond
  /\ progress \in 1..MaxProgress
  /\ now = progress
  /\ targetTime \in PayloadTargets
  /\ temperature \in PayloadTemps
  /\ intervalTargetTime = DefaultTargetTime
  /\ intervalTemperature = DefaultTemperature
  /\ events = StoppedEvents
  /\ message = "Simulation demarree"
  /\ deliveries = <<>>

SpecPayload == InitPayload /\ [][runEnded]_vars

\* effects run after the render, axios gives up on an attempt after its
\* timeout, and timers fire
FairSpecFinish ==
  /\ SpecFinish
  /\ WF_vars(runEnded)
  /\ WF_vars(postResolves \/ postRejects)
  /\ WF_vars(timerFires)

-----------------------------------------------------------------------------
(* sendWithRetry on its own: called with arguments drawn from small sets,   *)
(* its result left with the caller (pc "returned" with data, or "threw"     *)
(* with lastErr). The arguments wait in a call frame (pc "call").           *)

DirectParams ==
  [ session_id |-> "s1", learner_id |-> Null, resource_id |-> Null,
    api_key |-> "key123", callback_url |-> "https://cb.example/x",
    mode |-> "learning" ]

DirectUrls == CallbackUrls \ {Null}
DirectPayloads == { Payload(DirectParams, p, DefaultTemperature, <<>>) : p \in 1..2 }

CallFrame(url, payload, apiKey, maxAttempts) ==
  [ url |-> url, payload |-> payload, apiKey |-> apiKey,
    maxAttempts |-> maxAttempts, attempt |-> 0, lastErr |-> NoErr,
    pc |-> "call", data |-> NoBody, trace |-> <<>>, reports |-> <<>> ]

InitDeliver ==
  /\ sessionParams = DirectParams
  /\ startedAtRef = NoDate
  /\ now = 0
  /\ message = ""
  /\ running = FALSE
  /\ progress = 0
  /\ targetTime = DefaultTargetTime
  /\ temperature = DefaultTemperature
  /\ events = <<>>
  /\ intervalTargetTime = DefaultTargetTime
  /\ intervalTemperature = DefaultTemperature
  /\ \E url \in DirectUrls, payload \in DirectPayloads,
        apiKey \in ApiKeys \ {Null}, maxAttempts \in 1..MaxAttemptsBound :
       deliveries = << CallFrame(url, payload, apiKey, maxAttempts) >>

Direct(d) ==
  /\ deliveries' = [deliveries EXCEPT ![1] = d]
  /\ UNCHANGED appVars

directCall ==
  /\ deliveries[1].pc = "call"
  /\ Direct(sendWithRetry(deliveries[1].url, deliveries[1].payload,
                          deliveries[1].apiKey, deliveries[1].maxAttempts))

directResolves ==
  \E body \in Bodies :
    /\ deliveries[1].pc = "posting"
    /\ Direct(PostResolved(deliveries[1], body))

directRejects ==
  \E err \in Errors :
    /\ deliveries[1].pc = "posting"
    /\ Direct(PostRejected(deliveries[1], err))

directTimerFires ==
  /\ deliveries[1].pc = "waiting"
  /\ Direct(TimerFired(deliveries[1]))

NextDeliver ==
  \/ directCall
  \/ directResolves
  \/ directRejects
  \/ directTimerFires

SpecDeliver == InitDeliver /\ [][NextDeliver]_vars

-----------------------------------------------------------------------------
(* Observations on the history of a delivery *)

Idx(d, ev) == { j \in 1..Len(d.trace) : d.trace[j].ev = ev }
Count(d, ev) == Cardinality(Idx(d, ev))
CountBefore(d, ev, j) == Cardinality({ i \in Idx(d, ev) : i < j })

IsPost(e) == e.ev = "post"
IsWait(e) == e.ev = "setTimeout"
IsRejected(e) == e.ev = "rejected"

\* the network attempts made, and the backoff waits started, in order
Posts(d) == SelectSeq(d.trace, IsPost)
Waits(d) == LET w == SelectSeq(d.trace, IsWait) IN [j \in 1..Len(w) |-> w[j].delay]
Rejections(d) == LET r == SelectSeq(d.trace, IsRejected) IN [j \in 1..Len(r) |-> r[j].err]

\* attempts started and not yet completed
InFlight(d) == Count(d, "post") - Count(d, "resolved") - Count(d, "rejected")

\* 2^1*500, ..., 2^m*500
Backoffs(m) == [j \in 1..m |-> (2 ^ j) * 500]

-----------------------------------------------------------------------------
(* Claims on sendWithRetry, under SpecDeliver *)

\* C1: once all maxAttempts = n attempts of a delivery have failed, exactly n
\* attempts were made and exactly n-1 backoff waits were started, of
\* 2^1*500, ..., 2^(n-1)*500 ms in order: no wait follows the n-th failure.
C1_NoWaitAfterLastFailure ==
  \A i \in DOMAIN deliveries :
    LET d == deliveries[i] IN
      Count(d, "rejected") = d.maxAttempts
        => /\ Len(Posts(d)) = d.maxAttempts
           /\ Waits(d) = Backoffs(d.maxAttempts - 1)

\* C3: when the first attempt succeeds, the delivery has returned success
\* after exactly one network call and without any backoff wait.
C3_FirstAttemptSuccess ==
  \A i \in DOMAIN deliveries :
    LET d == deliveries[i] IN
      (Len(d.trace) >= 2 /\ d.trace[2].ev = "resolved")
        => /\ d.pc = "returned"
           /\ d.data = d.trace[2].body
           /\ Len(Posts(d)) = 1
           /\ Waits(d) = <<>>
           /\ InFlight(d) = 0

C3_Witness ==
  \E i \in DOMAIN deliveries :
    /\ deliveries[i].trace = << [ev |-> "post",
                                 req |-> Request(deliveries[i].url, deliveries[i].payload,
                                                 deliveries[i].apiKey)],
                                [ev |-> "resolved", body |-> deliveries[i].data] >>
    /\ deliveries[i].pc = "returned"
    /\ deliveries[i].maxAttempts >= 2

\* C4: a delivery never makes more than maxAttempts network attempts, and no
\* attempt is started after one has succeeded or after maxAttempts have failed.
C4_AttemptsBounded ==
  \A i \in DOMAIN deliveries :
    LET d == deliveries[i] IN
      /\ Len(Posts(d)) <= d.maxAttempts
      /\ \A j \in Idx(d, "post") :
           /\ CountBefore(d, "resolved", j) = 0
           /\ CountBefore(d, "rejected", j) < d.maxAttempts

C4_Witness ==
  \E i \in DOMAIN deliveries :
    /\ deliveries[i].pc = "threw"
    /\ deliveries[i].maxAttempts >= 2
    /\ Count(deliveries[i], "rejected") = deliveries[i].maxAttempts
    /\ Len(Posts(deliveries[i])) = deliveries[i].maxAttempts

\* C5: when attempts 1..k-1 fail and attempt k succeeds, the delivery returns
\* the body of attempt k after exactly k network calls, the waits before
\* attempt k being 2^1*500, ..., 2^(k-1)*500 ms in order.
C5_SuccessAtAttemptK ==
  \A i \in DOMAIN deliveries :
    LET d == deliveries[i]
        k == Len(Posts(d))
    IN Count(d, "resolved") > 0
         => /\ d.pc = "returned"
            /\ 1 <= k /\ k <= d.maxAttempts
            /\ Count(d, "rejected") = k - 1
            /\ d.trace[Len(d.trace)].ev = "resolved"
            /\ d.data = d.trace[Len(d.trace)].body
            /\ Waits(d) = Backoffs(k - 1)

C5_Witness ==
  \E i \in DOMAIN deliveries :
    /\ deliveries[i].pc = "returned"
    /\ deliveries[i].maxAttempts = 3
    /\ Len(Posts(deliveries[i])) = 3
    /\ Waits(deliveries[i]) = <<1000, 2000>>
    /\ deliveries[i].data.message = "stored"

\* C7: at most one attempt of a delivery is in flight, and every attempt but
\* the first is started right after the timer of the backoff wait that
\* followed the failure of the attempt before it has fired.
C7_AttemptsSequential ==
  \A i \in DOMAIN deliveries :
    LET d == deliveries[i] IN
      /\ InFlight(d) \in {0, 1}
      /\ InFlight(d) = 1 <=> d.pc = "posting"
      /\ \A j \in Idx(d, "post") :
           \/ j = 1
           \/ /\ j >= 5
              /\ d.trace[j - 1].ev = "timerFired"
              /\ d.trace[j - 2].ev = "setTimeout"
              /\ d.trace[j - 3].ev = "rejected"
              /\ d.trace[j - 4].ev = "post"

C7_Witness ==
  \E i \in DOMAIN deliveries :
    /\ Len(Posts(deliveries[i])) = 3
    /\ deliveries[i].pc = "posting"

-----------------------------------------------------------------------------
(* Claims on finishAndSend and its delivery, under SpecFinish *)

\* C2: with a callback_url that does not begin with 'https://' the delivery
\* makes no network attempt and no backoff wait, and reports exactly one
\* outcome, the failure "callback_url doit etre en HTTPS", never an
\* acknowledgment.
C2_InsecureUrlRefused ==
  \A i \in DOMAIN deliveries :
    LET d == deliveries[i] IN
      SubSeq(sessionParams.callback_url, 1, 8) # "https://"
        => /\ d.url = sessionParams.callback_url
           /\ d.trace = <<>>
           /\ d.pc = "done"
           /\ d.reports = << [kind |-> "failure",
                              text |-> "Echec envoi resultats: callback_url doit etre en HTTPS"] >>
           /\ message = d.reports[1].text

C2_Witness ==
  \E i \in DOMAIN deliveries :
    /\ deliveries[i].url = "http://insecure.example"
    /\ deliveries[i].pc = "done"
    /\ deliveries[i].trace = <<>>
    /\ deliveries[i].reports[1].kind = "failure"

\* C6: when all maxAttempts attempts of a delivery have failed, the delivery
\* reports no acknowledgment, and the failure it reports carries the error of
\* the last failed attempt.
C6_LastErrorSurfaced ==
  \A i \in DOMAIN deliveries :
    LET d == deliveries[i]
        n == d.maxAttempts
    IN (n >= 1 /\ Count(d, "rejected") = n)
         => /\ d.pc \in {"waiting", "done"}
            /\ d.lastErr = Rejections(d)[n]
            /\ \A r \in 1..Len(d.reports) : d.reports[r].kind = "failure"
            /\ d.pc = "done"
                 => /\ d.reports = << [kind |-> "failure",
                                       text |-> "Echec envoi resultats: "
                                                  \o ErrText(Rejections(d)[n])] >>
                    /\ message = d.reports[1].text

C6_Witness ==
  \E i \in DOMAIN deliveries :
    /\ deliveries[i].pc = "done"
    /\ Count(deliveries[i], "rejected") = 3
    /\ Rejections(deliveries[i])[1] # Rejections(deliveries[i])[3]
    /\ Rejections(deliveries[i])[2] # Rejections(deliveries[i])[3]
    /\ deliveries[i].reports[1].kind = "failure"

\* C8: a delivery never holds more than one reported outcome, holds exactly
\* one (an acknowledgment or a failure) once it is over, never stays with an
\* unreported result or error, and is eventually over.
C8_TerminatesWithOneOutcome ==
  /\ [](\A i \in DOMAIN deliveries :
          LET d == deliveries[i] IN
            /\ d.pc \in {"posting", "waiting", "done"}
            /\ Len(d.reports) <= 1
            /\ d.pc = "done" <=> Len(d.reports) = 1
            /\ \A r \in 1..Len(d.reports) : d.reports[r].kind \in {"ack", "failure"})
  /\ <>(/\ deliveries # <<>>
        /\ \A i \in DOMAIN deliveries : deliveries[i].pc = "done")

C8_Witness ==
  \E i \in DOMAIN deliveries :
    /\ deliveries[i].pc = "done"
    /\ Len(deliveries[i].reports) = 1
    /\ Count(deliveries[i], "rejected") = 3

\* C9: every network attempt of a delivery carries the callback_url, the
\* api_key (as the x-api-key header) and the payload finishAndSend was
\* called with, and the delivery keeps them unchanged.
C9_SameRequestEveryAttempt ==
  \A i \in DOMAIN deliveries :
    LET d == deliveries[i]
        payload == Payload(sessionParams, progress, temperature, events)
    IN /\ d.url = sessionParams.callback_url
       /\ d.apiKey = sessionParams.api_key
       /\ d.payload = payload
       /\ d.payload.events = events
       /\ \A j \in Idx(d, "post") :
            /\ d.trace[j].req.url = sessionParams.callback_url
            /\ d.trace[j].req.headers.xApiKey = sessionParams.api_key
            /\ d.trace[j].req.data = payload

C9_Witness ==
  \E i \in DOMAIN deliveries :
    /\ Len(Posts(deliveries[i])) = 3
    /\ Posts(deliveries[i])[3].req.headers.xApiKey = "key123"

\* C10 as stated: the acknowledgment shown is the body's message field
\* whenever the field is present (a null field counted as absent), and 'OK'
\* when the body or the field is absent.
C10_MessageWheneverPresent ==
  \A i \in DOMAIN deliveries :
    LET d == deliveries[i]
        body == d.trace[Len(d.trace)].body
    IN (d.pc = "done" /\ d.reports[1].kind = "ack")
         => d.reports[1].text =
              "Resultats envoyes: "
                \o (IF body.present /\ body.hasMessage /\ body.message # Null
                    THEN body.message ELSE "OK")

\* C10 amended: the acknowledgment shown is the body's message field when the
\* field is present and neither null nor empty, and 'OK' otherwise.
C10_MessageWhenNonEmpty ==
  \A i \in DOMAIN deliveries :
    LET d == deliveries[i]
        body == d.trace[Len(d.trace)].body
    IN (d.pc = "done" /\ Len(d.reports) > 0 /\ d.reports[1].kind = "ack")
         => /\ d.reports[1].text =
                 "Resultats envoyes: "
                   \o (IF /\ body.present
                          /\ body.hasMessage
                          /\ body.message \notin {Null, ""}
                       THEN body.message ELSE "OK")
            /\ message = d.reports[1].text

C10_Witness ==
  \E i \in DOMAIN deliveries :
    /\ deliveries[i].pc = "done"
    /\ deliveries[i].reports = << [kind |-> "ack", text |-> "Resultats envoyes: stored"] >>
    /\ message = "Resultats envoyes: stored"

-----------------------------------------------------------------------------
(* The payload: grade and score *)

\* C11: in every payload built by finishAndSend the grade is determined by the
\* score alone: 'A' for a score of 85 to 100, 'B' for 70 to 84, 'C' for 0 to 69.
C11_GradeFromScore ==
  \A i \in DOMAIN deliveries :
    LET sm == deliveries[i].payload.summary
    IN /\ sm.score \in 85..100 => sm.grade = "A"
       /\ sm.score \in 70..84 => sm.grade = "B"
       /\ sm.score \in 0..69 => sm.grade = "C"
       /\ sm.grade \in {"A", "B", "C"}

C11_Witness ==
  \E i \in DOMAIN deliveries :
    /\ deliveries[i].payload.summary.score = 85
    /\ deliveries[i].payload.summary.grade = "A"

\* C13: in every payload built by finishAndSend the score is an integer from
\* 0 to 100, whatever the elapsed time (at least 1), the target time (zero and
\* negative included) and the temperature (outside 100..250 included).
C13_ScoreInRange ==
  \A i \in DOMAIN deliveries :
    /\ deliveries[i].payload.metrics[1].value >= 1
    /\ deliveries[i].payload.summary.score \in 0..100

C13_Witness ==
  \E i \in DOMAIN deliveries :
    /\ targetTime < 0
    /\ temperature > 250
    /\ deliveries[i].payload.summary.score = 100

-----------------------------------------------------------------------------
(* The run loop *)

\* C12: when session_id, api_key or callback_url is missing, no run is ever
\* in progress and no delivery is ever made; a press on the start button leaves
\* running false, progress and the event log as they were, and changes nothing
\* but the message.
C12_MissingParamsNoRun ==
  /\ []((\E f \in {"session_id", "api_key", "callback_url"} : sessionParams[f] = Null)
          => ~running /\ deliveries = <<>>)
  /\ [][(\E f \in {"session_id", "api_key", "callback_url"} : sessionParams[f] = Null)
         => /\ ~running'
            /\ progress' = progress
            /\ events' = events
            /\ deliveries' = <<>>
            /\ message' # message
                 => /\ message' = "Parametres manquants"
                    /\ UNCHANGED <<sessionParams, targetTime, temperature,
                                   intervalTargetTime, intervalTemperature,
                                   startedAtRef, now>>]_vars

C12_Witness ==
  /\ sessionParams.session_id # Null
  /\ sessionParams.api_key = Null
  /\ sessionParams.callback_url # Null
  /\ message = "Parametres manquants"
  /\ targetTime <= MaxProgress

\* C14: while a run is in progress every step keeps the event log as a prefix
\* of the new one; the log changes outside a run only when start() replaces it
\* by the new run's ACTION.START; the events of a payload are the log at the
\* end of the run, ACTION.START first.
C14_EventsAppendOnly ==
  [][/\ running => /\ Len(events) <= Len(events')
                   /\ SubSeq(events', 1, Len(events)) = events
     /\ (~running /\ events' # events)
          => /\ running'
             /\ Len(events') = 1
             /\ events'[1].code = "ACTION.START"
     /\ Len(deliveries') > Len(deliveries)
          => /\ deliveries'[Len(deliveries')].payload.events = events'
             /\ events'[1].code = "ACTION.START"
             /\ \A j \in 2..Len(events') : events'[j].code # "ACTION.START"]_vars

C14_Witness ==
  \E i \in DOMAIN deliveries :
    LET evs == deliveries[i].payload.events
    IN /\ Len(evs) = 3
       /\ evs[1].code = "ACTION.START"
       /\ evs[2].code = "ACTION.PRESS"
       /\ evs[3].code = "ACTION.STOP"

\* C15: the start instant kept for a run is the clock's reading when the run
\* began and is not touched while the run is in progress; the payload built
\* when the run ends has that instant as started_at, the clock's reading as
\* ended_at, and started_at <= ended_at.
C15_StartedBeforeEnded ==
  [][/\ (~running /\ running') => startedAtRef' = DateNow
     /\ running => startedAtRef' = startedAtRef
     /\ Len(deliveries') > Len(deliveries)
          => LET p == deliveries'[Len(deliveries')].payload
             IN /\ p.started_at = toISOString(startedAtRef)
                /\ p.ended_at = toISOString(DateNow)
                /\ IsoLeq(p.started_at, p.ended_at)]_vars

C15_Witness ==
  \E i \in DOMAIN deliveries :
    /\ deliveries[i].payload.started_at = << 0, 59 >>
    /\ deliveries[i].payload.ended_at = << 1, 0 >>

\* C16: no delivery exists at page load, and a step adds a delivery exactly
\* when it takes a run from running to stopped with progress > 0, and then it
\* adds exactly one.
C16_OneDeliveryPerEndedRun ==
  /\ deliveries = <<>>
  /\ [][Len(deliveries') = Len(deliveries)
                             + (IF running /\ ~running' /\ progress' > 0
                                THEN 1 ELSE 0)]_vars

C16_Witness ==
  /\ ~running
  /\ progress > 0
  /\ Len(deliveries) = 1
  /\ events[Len(events)].code # "ACTION.STOP"

\* C17: a run in progress eventually stops; a tick adds exactly 1 to progress
\* and leaves the run in progress exactly when the new progress is below the
\* target time the run was started with; progress does not change once the
\* run has stopped, until start() sets it to 0.
C17_RunStopsAtTarget ==
  /\ running ~> ~running
  /\ [][/\ (~running /\ running') => intervalTargetTime' = targetTime
        /\ running => intervalTargetTime' = intervalTargetTime
        /\ (running /\ progress' # progress)
             => /\ progress' = progress + 1
                /\ running' <=> progress' < intervalTargetTime
        /\ (~running /\ progress' # progress)
             => /\ running'
                /\ progress' = 0]_vars

C17_Witness ==
  /\ ~running
  /\ progress > 1
  /\ progress = intervalTargetTime
  /\ targetTime < intervalTargetTime
  /\ events[Len(events)].code = "ACTION.PRESS"

\* C18: after every tick of the timer the temperature is between 100 and 250.
C18_TemperatureClamped ==
  [][progress' = progress + 1 => temperature' \in 100..250]_vars

C18_Witness ==
  /\ progress = 1
  /\ intervalTemperature = 90
  /\ temperature = 100

====
